---- MODULE Spec2Model ----
(***************************************************************************)
(* Model of byteflowcall.py: the eight MCP tools of the Byteflow call      *)
(* manager, the HTTP helper they share, and the module-level               *)
(* configuration (BASE_URL, HEADERS, the BYTEFLOW_API_KEY environment      *)
(* variable).                                                              *)
(*                                                                         *)
(* Python values are tagged records.  A string is a sequence of text       *)
(* fragments, so that an f-string is a concatenation and the empty string  *)
(* is the empty sequence.                                                  *)
(***************************************************************************)
EXTENDS Naturals, Sequences, FiniteSets, TLC

VARIABLES BASE_URL, HEADERS, environ, pc, tool, input, local, caught, log, result

vars == <<BASE_URL, HEADERS, environ, pc, tool, input, local, caught, log, result>>

shared == <<BASE_URL, HEADERS, environ>>

(* ---------------------------- bounds ----------------------------------- *)

\* number of invocation contexts the hosting runtime may have open
NumInvocations == 2

Invocations == 1..NumInvocations

(* ------------------------- Python values ------------------------------- *)

PyNone == [t |-> "none"]

S(text) == [t |-> "str", s |-> <<text>>]

EmptyStr == [t |-> "str", s |-> <<>>]

PyInt(n) == [t |-> "int", n |-> n]

PyList(items) == [t |-> "list", items |-> items]

PyDict(fields) == [t |-> "dict", fields |-> fields]

EmptyDict == PyDict(<<>>)

\* bool(v): None, "", [], {} and 0 are false
Truthy(v) ==
    CASE v.t = "none" -> FALSE
      [] v.t = "str"  -> v.s # <<>>
      [] v.t = "int"  -> v.n # 0
      [] v.t = "list" -> v.items # <<>>
      [] v.t = "dict" -> DOMAIN v.fields # {}

\* a or b
Or_absentOnly(a, b) == IF a # PyNone THEN a ELSE b

Or(a, b) == IF Truthy(a) THEN a ELSE b

IntText(n) ==
    CASE n = 200 -> "200"
      [] n = 400 -> "400"
      [] n = 404 -> "404"
      [] n = 422 -> "422"
      [] n = 500 -> "500"

\* str(v), also the text an f-string puts in place of {v}
Str(v) ==
    CASE v.t = "none" -> S("None")
      [] v.t = "str"  -> v
      [] v.t = "int"  -> S(IntText(v.n))
      [] v.t = "list" -> IF v.items = <<>> THEN S("[]") ELSE S("[...]")
      [] v.t = "dict" -> IF DOMAIN v.fields = {} THEN S("{}") ELSE S("{...}")

RECURSIVE Cat(_)
\* f-string: the concatenation of the texts of the parts
Cat(parts) ==
    IF parts = <<>> THEN EmptyStr
    ELSE [t |-> "str", s |-> Str(Head(parts)).s \o Cat(Tail(parts)).s]

\* dict.get(key), None when the key is missing
Get(d, key) == IF key \in DOMAIN d.fields THEN d.fields[key] ELSE PyNone

(* ---------------------- the remote service ----------------------------- *)

\* what requests.request + raise_for_status + json() can do with one request
OkResp(body) == [kind |-> "ok", status |-> 200, text |-> EmptyStr, body |-> body]

HttpErr(code) == [kind |-> "http", status |-> code, text |-> S("error body"), body |-> PyNone]

NetErr(kind) == [kind |-> kind, status |-> 0, text |-> S("detail"), body |-> PyNone]

ErrorStatuses == {400, 404, 422, 500}

Failures == {HttpErr(c) : c \in ErrorStatuses}
              \cup {NetErr(k) : k \in {"conn", "timeout", "reqexc", "other"}}

DidA == S("+15551112222")

DidB == S("+15553334444")

DidBodies ==
    { PyDict([dids |-> PyList(<<DidA, DidB>>)]),
      PyDict([dids |-> PyList(<<PyDict([did_number |-> DidB]), DidA>>)]),
      PyDict([dids |-> PyList(<<PyDict([label |-> S("main")]), DidA>>)]),
      PyDict([dids |-> PyList(<<PyDict([did_number |-> EmptyStr]), DidA>>)]),
      PyDict([dids |-> PyList(<<PyDict([did_number |-> PyNone]), DidA>>)]),
      PyDict([dids |-> PyList(<<EmptyStr, DidA>>)]),
      PyDict([dids |-> PyList(<<PyNone, DidA>>)]),
      PyDict([dids |-> PyList(<<>>)]),
      PyDict([dids |-> DidA]),
      PyDict([status |-> S("ok")]),
      PyList(<<DidA, DidB>>) }

PlainBodies == { PyDict([status |-> S("ok")]), PyList(<<>>) }

\* any endpoint may answer with any of the bodies or fail in any of the ways
Responses == {OkResp(b) : b \in DidBodies \cup PlainBodies} \cup Failures

\* the answers drawn in the runs with overlapping invocations
FewResponses == {OkResp(PyDict([dids |-> PyList(<<DidA, DidB>>)])), HttpErr(404)}

(* ----------------------- ByteflowAPIError ------------------------------ *)

ByteflowAPIError(message, status_code, response_text) ==
    [class |-> "ByteflowAPIError", message |-> message,
     status_code |-> status_code, response_text |-> response_text]

\* any other exception, with the text str(e) gives
RawException(text) ==
    [class |-> "Exception", message |-> text,
     status_code |-> PyNone, response_text |-> PyNone]

Returned(value) == [ret |-> TRUE, value |-> value, exc |-> PyNone]

Raised(exc) == [ret |-> FALSE, value |-> PyNone, exc |-> exc]

(* -------------------------- _make_request ------------------------------ *)

Getenv(env, default) == IF env = PyNone THEN default ELSE env

bearer_token == Getenv(environ, S("dummy_key_for_tests"))

\* current_headers = HEADERS.copy() plus the two credential headers
current_headers(template, token) ==
    ("Authorization" :> Cat(<<S("Bearer "), token>>)) @@ ("X-API-Key" :> token) @@ template

\* what building current_headers leaves in the module-level HEADERS
HEADERS_after_alias(template, token) == current_headers(template, token)

HEADERS_after(template, token) == template

Request(method, endpoint, json_data) ==
    [method |-> method, url |-> Cat(<<BASE_URL, endpoint>>),
     headers |-> current_headers(HEADERS, bearer_token),
     json |-> json_data, timeout |-> 15]

\* the except clauses of _make_request: what the caller gets for a response
make_request_leaky(resp) ==
    CASE resp.kind = "ok" -> Returned(resp.body)
      [] resp.kind = "http" ->
           Raised(ByteflowAPIError(
               Cat(<<S("Byteflow API HTTP Error: "), PyInt(resp.status), S(" - "), resp.text>>),
               PyInt(resp.status), resp.text))
      [] resp.kind = "conn" ->
           Raised(ByteflowAPIError(
               Cat(<<S("Byteflow API Connection Error: "), resp.text>>), PyNone, PyNone))
      [] resp.kind = "timeout" ->
           Raised(ByteflowAPIError(
               Cat(<<S("Byteflow API Timeout Error: "), resp.text>>), PyNone, PyNone))
      [] resp.kind = "reqexc" ->
           Raised(ByteflowAPIError(
               Cat(<<S("An unexpected request error occurred with Byteflow API: "), resp.text>>),
               PyNone, PyNone))
      [] resp.kind = "other" -> Raised(RawException(resp.text))

make_request(resp) ==
    CASE resp.kind = "ok" -> Returned(resp.body)
      [] resp.kind = "http" ->
           Raised(ByteflowAPIError(
               Cat(<<S("Byteflow API HTTP Error: "), PyInt(resp.status), S(" - "), resp.text>>),
               PyInt(resp.status), resp.text))
      [] resp.kind = "conn" ->
           Raised(ByteflowAPIError(
               Cat(<<S("Byteflow API Connection Error: "), resp.text>>), PyNone, PyNone))
      [] resp.kind = "timeout" ->
           Raised(ByteflowAPIError(
               Cat(<<S("Byteflow API Timeout Error: "), resp.text>>), PyNone, PyNone))
      [] resp.kind = "reqexc" ->
           Raised(ByteflowAPIError(
               Cat(<<S("An unexpected request error occurred with Byteflow API: "), resp.text>>),
               PyNone, PyNone))
      [] resp.kind = "other" ->
           Raised(ByteflowAPIError(
               Cat(<<S("An unexpected error occurred during API request: "), resp.text>>),
               PyNone, PyNone))

\* one request of invocation p leaves the process: logged with its response
Send(p, method, endpoint, json_data, resp) ==
    /\ log' = [log EXCEPT ![p] =
                 Append(@, [request |-> Request(method, endpoint, json_data),
                            response |-> resp])]
    /\ HEADERS' = HEADERS_after(HEADERS, bearer_token)
    /\ UNCHANGED <<BASE_URL, environ>>

(* --------------------------- tool results ------------------------------ *)

Value(v) == [kind |-> "return", value |-> v, exc |-> PyNone]

Propagated(exc) == [kind |-> "raise", value |-> PyNone, exc |-> exc]

NoResult == [kind |-> "none", value |-> PyNone, exc |-> PyNone]

Unexpected(exc) == Value(Cat(<<S("An unexpected error occurred: "), exc.message>>))

Finish(p, res) ==
    /\ pc' = [pc EXCEPT ![p] = "done"]
    /\ result' = [result EXCEPT ![p] = res]

(* ------------------------------ inputs --------------------------------- *)

Tools == {"get_health_status", "get_configuration", "get_call_status",
          "get_call_transcript", "get_active_calls", "list_available_dids",
          "start_new_call", "force_disconnect_call"}

NoInput == [none |-> PyNone]

\* CallIdInput
CallIdInputs == [call_id : {S("c1"), S("c2")}]

Opt(text) == {PyNone, EmptyStr, S(text)}

\* StartCallInput: Optional[str] fields may be None, system_prompt and
\* greeting_text are required strings
StartCallInputs ==
    [to_number : Opt("08069256212"), from_number : Opt("0700000001"),
     destination : Opt("08011111111"), did_number : Opt("0700000002"),
     ai_client : Opt("client2"),
     script_id : Opt("script-7"),
     metadata : {PyNone, PyDict([campaign |-> S("x")])},
     system_prompt : {EmptyStr, S("p")},
     greeting_text : {EmptyStr, S("g")}]

\* a few representative requests for the runs with overlapping invocations
FewStartCallInputs ==
    { i \in StartCallInputs :
        /\ i.destination = PyNone /\ i.from_number = PyNone
        /\ i.to_number = S("08069256212")
        /\ i.did_number \in {PyNone, S("0700000002")}
        /\ i.ai_client = PyNone /\ i.script_id = PyNone /\ i.metadata = PyNone
        /\ i.system_prompt = S("p") /\ i.greeting_text = S("g") }

InputsOf(t) ==
    CASE t \in {"get_call_status", "get_call_transcript", "force_disconnect_call"} -> CallIdInputs
      [] t = "start_new_call" -> StartCallInputs
      [] OTHER -> {NoInput}

FewInputsOf(t) ==
    CASE t \in {"get_call_status", "get_call_transcript", "force_disconnect_call"} -> {[call_id |-> S("c1")]}
      [] t = "start_new_call" -> FewStartCallInputs
      [] OTHER -> {NoInput}

NoLocals == [destination |-> PyNone, did_number |-> PyNone, ai_client |-> PyNone,
             system_prompt |-> PyNone, greeting_text |-> PyNone]

(* ------------------------------- Init ---------------------------------- *)

\* module import: BYTEFLOW_API_KEY is the configured key or the dummy one
Init ==
    /\ BASE_URL = S("https://apidoc.byteflow.bot")
    /\ HEADERS = ("Content-Type" :> S("application/json"))
    /\ environ \in {S("dummy_key_for_tests"), S("key-1")}
    /\ pc = [p \in Invocations |-> "idle"]
    /\ tool = [p \in Invocations |-> "none"]
    /\ input = [p \in Invocations |-> NoInput]
    /\ local = [p \in Invocations |-> NoLocals]
    /\ caught = [p \in Invocations |-> <<>>]
    /\ log = [p \in Invocations |-> <<>>]
    /\ result = [p \in Invocations |-> NoResult]

(* ------------------- the hosting runtime's steps ----------------------- *)

\* a tool call is dispatched in the first free invocation context
Begin(p, t, i) ==
    /\ pc[p] = "idle"
    /\ \A q \in 1..(p - 1) : pc[q] # "idle"
    /\ pc' = [pc EXCEPT ![p] = t]
    /\ tool' = [tool EXCEPT ![p] = t]
    /\ input' = [input EXCEPT ![p] = i]
    /\ UNCHANGED <<shared, local, caught, log, result>>

\* the runtime dispatches one tool call at a time
Invoke(p) ==
    /\ \A q \in Invocations : pc[q] = "idle"
    /\ \E t \in Tools : \E i \in InputsOf(t) : Begin(p, t, i)

\* one tool of each shape: no input, a call id, the lookup chain, the call
ParallelTools == {"get_health_status", "get_call_status", "list_available_dids",
                  "start_new_call"}

\* the runtime dispatches a tool call while others are in flight
InvokeParallel(p) ==
    \E t \in ParallelTools : \E i \in FewInputsOf(t) : Begin(p, t, i)

\* the runtime takes the returned value; the invocation's frame is gone
Collect(p) ==
    /\ pc[p] = "done"
    /\ pc' = [pc EXCEPT ![p] = "idle"]
    /\ tool' = [tool EXCEPT ![p] = "none"]
    /\ input' = [input EXCEPT ![p] = NoInput]
    /\ local' = [local EXCEPT ![p] = NoLocals]
    /\ caught' = [caught EXCEPT ![p] = <<>>]
    /\ log' = [log EXCEPT ![p] = <<>>]
    /\ result' = [result EXCEPT ![p] = NoResult]
    /\ UNCHANGED shared

\* the credential in the process environment is replaced or removed
SetCredential ==
    /\ \E k \in {PyNone, S("key-1")} : environ' = k
    /\ environ' # environ
    /\ UNCHANGED <<BASE_URL, HEADERS, pc, tool, input, local, caught, log, result>>

(* ------------------- the single-request tools -------------------------- *)

\* try: return _make_request(...)  except ByteflowAPIError  except Exception
Handle(o, failure) ==
    IF o.ret THEN Value(o.value)
    ELSE IF o.exc.class = "ByteflowAPIError" THEN Value(failure)
    ELSE Unexpected(o.exc)

get_health_status(p, resp) ==
    /\ pc[p] = "get_health_status"
    /\ LET o == make_request(resp) IN
         /\ Send(p, "GET", S("/api/health"), PyNone, resp)
         /\ Finish(p, Handle(o, Cat(<<S("Failed to get health status: "), o.exc.message>>)))
    /\ UNCHANGED <<tool, input, local, caught>>

get_configuration(p, resp) ==
    /\ pc[p] = "get_configuration"
    /\ LET o == make_request(resp) IN
         /\ Send(p, "GET", S("/api/config"), PyNone, resp)
         /\ Finish(p, Handle(o, Cat(<<S("Failed to get configuration: "), o.exc.message>>)))
    /\ UNCHANGED <<tool, input, local, caught>>

get_call_status(p, resp) ==
    /\ pc[p] = "get_call_status"
    /\ LET o == make_request(resp)
           id == input[p].call_id
       IN
         /\ Send(p, "GET", Cat(<<S("/api/call/"), id>>), PyNone, resp)
         /\ Finish(p, Handle(o,
               IF o.exc.status_code = PyInt(404)
               THEN Cat(<<S("Call with ID '"), id, S("' not found. Please check the call ID.")>>)
               ELSE Cat(<<S("Failed to get call status for '"), id, S("': "), o.exc.message>>)))
    /\ UNCHANGED <<tool, input, local, caught>>

get_call_transcript(p, resp) ==
    /\ pc[p] = "get_call_transcript"
    /\ LET o == make_request(resp)
           id == input[p].call_id
       IN
         /\ Send(p, "GET", Cat(<<S("/api/call/"), id, S("/transcript")>>), PyNone, resp)
         /\ Finish(p, Handle(o,
               IF o.exc.status_code = PyInt(404)
               THEN Cat(<<S("Transcript for call ID '"), id,
                          S("' not found or call does not exist. It might not be available yet.")>>)
               ELSE Cat(<<S("Failed to get call transcript for '"), id, S("': "), o.exc.message>>)))
    /\ UNCHANGED <<tool, input, local, caught>>

get_active_calls(p, resp) ==
    /\ pc[p] = "get_active_calls"
    /\ LET o == make_request(resp) IN
         /\ Send(p, "GET", S("/api/calls/active"), PyNone, resp)
         /\ Finish(p, Handle(o, Cat(<<S("Failed to get active calls: "), o.exc.message>>)))
    /\ UNCHANGED <<tool, input, local, caught>>

force_disconnect_call(p, resp) ==
    /\ pc[p] = "force_disconnect_call"
    /\ LET o == make_request(resp)
           id == input[p].call_id
       IN
         /\ Send(p, "POST", Cat(<<S("/api/call/"), id, S("/force-disconnect")>>), PyNone, resp)
         /\ Finish(p, Handle(o,
               IF o.exc.status_code = PyInt(404)
               THEN Cat(<<S("Call with ID '"), id,
                          S("' not found or already disconnected. Cannot force disconnect.")>>)
               ELSE Cat(<<S("Failed to force disconnect call '"), id, S("': "), o.exc.message>>)))
    /\ UNCHANGED <<tool, input, local, caught>>

(* ------------------------ list_available_dids -------------------------- *)

primary_request == [method |-> "POST", endpoint |-> S("/api/validate-and-fetch-dids")]

fallback1_request_generic == [method |-> "GET", endpoint |-> S("/api/dids")]

fallback1_request == [method |-> "GET", endpoint |-> S("/api/did/my-dids")]

fallback2_request == [method |-> "GET", endpoint |-> S("/api/dids")]

\* the string returned when the last fallback has failed too
AllFailed_first(e_primary, e_fb1, e_fb2) ==
    Cat(<<S("Failed to list available DIDs: "), e_primary.message>>)

AllFailed(e_primary, e_fb1, e_fb2) ==
    Cat(<<S("Failed to list available DIDs: "), e_fb2.message>>)

\* the outer try: its except Exception clause covers only the primary request
list_available_dids(p, resp) ==
    /\ pc[p] = "list_available_dids"
    /\ LET o == make_request(resp) IN
         /\ Send(p, primary_request.method, primary_request.endpoint, PyNone, resp)
         /\ IF o.ret THEN Finish(p, Value(o.value)) /\ UNCHANGED caught
            ELSE IF o.exc.class = "ByteflowAPIError"
            THEN /\ pc' = [pc EXCEPT ![p] = "fallback1"]
                 /\ caught' = [caught EXCEPT ![p] = <<o.exc>>]
                 /\ UNCHANGED result
            ELSE Finish(p, Unexpected(o.exc)) /\ UNCHANGED caught
    /\ UNCHANGED <<tool, input, local>>

\* the try inside "except ByteflowAPIError as e_primary"
list_available_dids_fallback1(p, resp) ==
    /\ pc[p] = "fallback1"
    /\ LET o == make_request(resp) IN
         /\ Send(p, fallback1_request.method, fallback1_request.endpoint, PyNone, resp)
         /\ IF o.ret THEN Finish(p, Value(o.value)) /\ UNCHANGED caught
            ELSE IF o.exc.class = "ByteflowAPIError"
            THEN /\ pc' = [pc EXCEPT ![p] = "fallback2"]
                 /\ caught' = [caught EXCEPT ![p] = Append(@, o.exc)]
                 /\ UNCHANGED result
            ELSE Finish(p, Propagated(o.exc)) /\ UNCHANGED caught
    /\ UNCHANGED <<tool, input, local>>

\* the try inside "except ByteflowAPIError as e_fb1"
list_available_dids_fallback2(p, resp) ==
    /\ pc[p] = "fallback2"
    /\ LET o == make_request(resp) IN
         /\ Send(p, fallback2_request.method, fallback2_request.endpoint, PyNone, resp)
         /\ IF o.ret THEN Finish(p, Value(o.value))
            ELSE IF o.exc.class = "ByteflowAPIError"
            THEN Finish(p, Value(AllFailed(caught[p][1], caught[p][2], o.exc)))
            ELSE Finish(p, Propagated(o.exc))
    /\ UNCHANGED <<tool, input, local, caught>>

(* --------------------------- start_new_call ---------------------------- *)

DestinationRequired ==
    S("Failed to start call due to invalid input: destination/to_number is required.")

DidRequired ==
    S("Failed to start call: did_number/from_number is required (no default DID available).")

\* lines 288-292: aliases and defaults
Resolve(i) ==
    [destination   |-> Or(i.destination, i.to_number),
     did_number    |-> Or(i.did_number, i.from_number),
     ai_client     |-> Or(i.ai_client, S("client1")),
     system_prompt |-> Or(i.system_prompt, S("You are an AI assistant helping with a phone call.")),
     greeting_text |-> Or(i.greeting_text, S("Hello! This is an automated call."))]

\* where the two "if not ..." tests before the lookup send the invocation
AfterResolve_didFirst(destination, did_number) ==
    IF ~Truthy(did_number) THEN "autoselect"
    ELSE IF ~Truthy(destination) THEN "invalid"
    ELSE "submit"

AfterResolve(destination, did_number) ==
    IF ~Truthy(destination) THEN "invalid"
    ELSE IF ~Truthy(did_number) THEN "autoselect"
    ELSE "submit"

start_new_call(p) ==
    /\ pc[p] = "start_new_call"
    /\ LET r == Resolve(input[p])
           next == AfterResolve(r.destination, r.did_number)
       IN
       /\ local' = [local EXCEPT ![p] = r]
       /\ IF next = "invalid"
          THEN Finish(p, Value(DestinationRequired))
          ELSE pc' = [pc EXCEPT ![p] = next] /\ UNCHANGED result
    /\ UNCHANGED <<shared, tool, input, caught, log>>

\* dids[0] and the entry that a wrong index would take
Pick_last(dids) == dids[Len(dids)]

Pick(dids) == dids[1]

\* lines 301-307: the DID taken from the lookup's response, None if there is none
SelectDid(did_resp) ==
    LET dids == IF /\ did_resp.t = "dict"
                   /\ "dids" \in DOMAIN did_resp.fields
                   /\ did_resp.fields["dids"].t = "list"
                THEN did_resp.fields["dids"].items
                ELSE <<>>
    IN IF dids # <<>>
       THEN LET first_did == Pick(dids) IN
            IF first_did.t = "dict" THEN Get(first_did, "did_number") ELSE Str(first_did)
       ELSE PyNone

\* "except Exception: pass" around the lookup, and what a handler that
\* reports the failure would return instead
LookupFailed_reported(exc) ==
    Value(Cat(<<S("Failed to start call: "), exc.message>>))

LookupFailed(exc) == Value(DidRequired)

\* the test after the lookup
StillMissing_never(did_number) == FALSE

StillMissing(did_number) == ~Truthy(did_number)

start_new_call_autoselect(p, resp) ==
    /\ pc[p] = "autoselect"
    /\ LET o == make_request(resp)
             did == IF o.ret THEN SelectDid(o.value) ELSE local[p].did_number
         IN
         /\ Send(p, "POST", S("/api/validate-and-fetch-dids"), PyNone, resp)
         /\ local' = [local EXCEPT ![p].did_number = did]
         /\ IF ~o.ret THEN Finish(p, LookupFailed(o.exc))
            ELSE IF StillMissing(did) THEN Finish(p, Value(DidRequired))
            ELSE pc' = [pc EXCEPT ![p] = "submit"] /\ UNCHANGED result
    /\ UNCHANGED <<tool, input, caught>>

\* lines 323-326: the optional fields that go into the payload
Passthrough_ifTruthy(i) ==
    (IF Truthy(i.script_id) THEN ("script_id" :> i.script_id) ELSE <<>>)
      @@ (IF Truthy(i.metadata) THEN ("metadata" :> i.metadata) ELSE <<>>)

Passthrough(i) ==
    (IF i.script_id # PyNone THEN ("script_id" :> i.script_id) ELSE <<>>)
      @@ (IF i.metadata # PyNone THEN ("metadata" :> i.metadata) ELSE <<>>)

Payload(l, i) ==
    PyDict([destination |-> l.destination, did_number |-> l.did_number,
            ai_client |-> l.ai_client, system_prompt |-> l.system_prompt,
            greeting_text |-> l.greeting_text] @@ Passthrough(i))

start_new_call_submit(p, resp) ==
    /\ pc[p] = "submit"
    /\ LET o == make_request(resp) IN
         /\ Send(p, "POST", S("/api/call"), Payload(local[p], input[p]), resp)
         /\ Finish(p, Handle(o,
               IF o.exc.status_code \in {PyInt(400), PyInt(422)}
               THEN Cat(<<S("Failed to start call due to invalid input: "), o.exc.response_text,
                          S(". Please check the provided numbers and parameters.")>>)
               ELSE Cat(<<S("Failed to start call to '"), input[p].to_number, S("': "),
                          o.exc.message>>)))
    /\ UNCHANGED <<tool, input, local, caught>>

(* --------------------------- specifications ---------------------------- *)

Step(p, resp) ==
    \/ get_health_status(p, resp)
    \/ get_configuration(p, resp)
    \/ get_call_status(p, resp)
    \/ get_call_transcript(p, resp)
    \/ get_active_calls(p, resp)
    \/ list_available_dids(p, resp)
    \/ list_available_dids_fallback1(p, resp)
    \/ list_available_dids_fallback2(p, resp)
    \/ start_new_call_autoselect(p, resp)
    \/ start_new_call_submit(p, resp)
    \/ force_disconnect_call(p, resp)

Next ==
    \E p \in Invocations :
        \/ Invoke(p)
        \/ start_new_call(p)
        \/ \E resp \in Responses : Step(p, resp)
        \/ Collect(p)

\* one tool call at a time
Spec == Init /\ [][Next]_vars

StepParallel(p, resp) ==
    \/ get_health_status(p, resp)
    \/ get_call_status(p, resp)
    \/ list_available_dids(p, resp)
    \/ list_available_dids_fallback1(p, resp)
    \/ list_available_dids_fallback2(p, resp)
    \/ start_new_call_autoselect(p, resp)
    \/ start_new_call_submit(p, resp)

NextParallel ==
    \/ \E p \in Invocations :
          \/ InvokeParallel(p)
          \/ start_new_call(p)
          \/ \E resp \in FewResponses : StepParallel(p, resp)
          \/ Collect(p)
    \/ SetCredential

\* tool calls dispatched in parallel, the credential rotated meanwhile; the
\* tools left out differ from get_health_status and get_call_status only in
\* the path they request and the wording of their strings
SpecParallel == Init /\ [][NextParallel]_vars

(* ------------------------- vocabulary of the claims -------------------- *)

Range(seq) == {seq[k] : k \in DOMAIN seq}

Url(path) == [t |-> "str", s |-> BASE_URL.s \o <<path>>]

IsRequest(e, method, path) == e.request.method = method /\ e.request.url = Url(path)

IsCallPost(e) == IsRequest(e, "POST", "/api/call")

IsText(v) == v.t = "str"

Failed(e) == e.response.kind # "ok"

Starts == {p \in Invocations : tool[p] = "start_new_call"}

Lists == {p \in Invocations : tool[p] = "list_available_dids"}

Supplied(v) == v # PyNone /\ v # EmptyStr

\* the destination a request supplies, and whether it supplies one
HasDestination(i) == Supplied(i.destination) \/ Supplied(i.to_number)

SuppliedDestination(i) == IF Supplied(i.destination) THEN i.destination ELSE i.to_number

HasDid(i) == Supplied(i.did_number) \/ Supplied(i.from_number)

SuppliedDid(i) == IF Supplied(i.did_number) THEN i.did_number ELSE i.from_number

(* ------------------------------- C1 ------------------------------------ *)

\* C1: a start_new_call request with neither destination nor to_number, whatever
\* its other fields, ends in its first step with the destination validation
\* string and never issues a network request.
C1_NoDestinationNoNetwork ==
    \A p \in Starts :
        (input[p].destination = PyNone /\ input[p].to_number = PyNone) =>
            /\ log[p] = <<>>
            /\ pc[p] \in {"start_new_call", "done"}
            /\ pc[p] = "done" =>
                 result[p] = [kind |-> "return", exc |-> PyNone,
                     value |-> S("Failed to start call due to invalid input: destination/to_number is required.")]

C1_Witness ==
    \E p \in Starts :
        /\ input[p].destination = PyNone /\ input[p].to_number = PyNone
        /\ input[p].did_number = PyNone /\ input[p].from_number = PyNone
        /\ pc[p] = "done" /\ log[p] = <<>> /\ IsText(result[p].value)

(* ------------------------------- C2 ------------------------------------ *)

ChainPaths == <<[method |-> "POST", path |-> "/api/validate-and-fetch-dids"],
                [method |-> "GET", path |-> "/api/did/my-dids"],
                [method |-> "GET", path |-> "/api/dids"]>>

\* C2: list_available_dids issues its lookups in the fixed order, the k-th only
\* after the k-1 before it failed; the first success ends the invocation with
\* that response's body as the result, after exactly k requests.
C2_ChainOrder ==
    \A p \in Lists :
        /\ Len(log[p]) <= 3
        /\ \A k \in DOMAIN log[p] :
              /\ IsRequest(log[p][k], ChainPaths[k].method, ChainPaths[k].path)
              /\ \A j \in 1..(k - 1) : Failed(log[p][j])
              /\ ~Failed(log[p][k]) =>
                    /\ k = Len(log[p])
                    /\ pc[p] = "done"
                    /\ result[p].kind = "return"
                    /\ result[p].value = log[p][k].response.body

C2_Witness ==
    \E p \in Lists :
        /\ pc[p] = "done" /\ Len(log[p]) = 2
        /\ Failed(log[p][1]) /\ ~Failed(log[p][2])
        /\ result[p].value = log[p][2].response.body
        /\ result[p].value = PyDict([dids |-> PyList(<<DidA, DidB>>)])

(* ------------------------------- C3 ------------------------------------ *)

\* the message _make_request gives the error of a failed response
MessageOf(resp) ==
    LET detail == resp.text.s IN
    CASE resp.kind = "http" ->
           <<"Byteflow API HTTP Error: ", IntText(resp.status), " - ">> \o detail
      [] resp.kind = "conn" -> <<"Byteflow API Connection Error: ">> \o detail
      [] resp.kind = "timeout" -> <<"Byteflow API Timeout Error: ">> \o detail
      [] resp.kind = "reqexc" ->
           <<"An unexpected request error occurred with Byteflow API: ">> \o detail
      [] resp.kind = "other" ->
           <<"An unexpected error occurred during API request: ">> \o detail

AllThreeFailed(p) ==
    /\ p \in Lists /\ pc[p] = "done"
    /\ \A k \in DOMAIN log[p] : Failed(log[p][k])

\* C3: when every lookup of list_available_dids fails, three requests were made
\* and the returned string is built from the third error's message alone: no
\* text that only the first or second error carries is in it.
C3_LastFailureReported ==
    \A p \in Invocations :
        AllThreeFailed(p) =>
            /\ Len(log[p]) = 3
            /\ result[p].kind = "return"
            /\ result[p].value.t = "str"
            /\ result[p].value.s =
                 <<"Failed to list available DIDs: ">> \o MessageOf(log[p][3].response)
            /\ \A k \in {1, 2} :
                 \A frag \in Range(MessageOf(log[p][k].response)) :
                    frag \in Range(result[p].value.s) =>
                        frag \in Range(MessageOf(log[p][3].response))

C3_Witness ==
    \E p \in Invocations :
        /\ AllThreeFailed(p) /\ Len(log[p]) = 3
        /\ log[p][1].response.kind = "conn"
        /\ log[p][2].response.kind = "timeout"
        /\ log[p][3].response = HttpErr(500)

(* ------------------------------- C4 ------------------------------------ *)

Waiting(p) == pc[p] \notin {"idle", "done", "start_new_call"}

\* C4: a tool invocation can always take its next step, whatever the remote
\* service answers, and when it is over it has returned a value, either the
\* body of its last response or a string; no exception leaves the tool.
C4_AlwaysReturns ==
    \A p \in Invocations :
        /\ pc[p] = "start_new_call" => ENABLED start_new_call(p)
        /\ Waiting(p) => \A resp \in Responses : ENABLED Step(p, resp)
        /\ pc[p] = "done" =>
              /\ result[p].kind = "return"
              /\ \/ IsText(result[p].value)
                 \/ /\ log[p] # <<>>
                    /\ ~Failed(log[p][Len(log[p])])
                    /\ result[p].value = log[p][Len(log[p])].response.body

C4_Witness ==
    \E p \in Lists :
        /\ pc[p] = "done" /\ Len(log[p]) = 3
        /\ log[p][1].response.kind = "http"
        /\ log[p][2].response.kind = "other"
        /\ log[p][3].response.kind = "other"
        /\ result[p].kind = "return" /\ IsText(result[p].value)

(* ------------------------------- C5 ------------------------------------ *)

Defaulted == {"ai_client", "system_prompt", "greeting_text"}

DefaultOf(field) ==
    CASE field = "ai_client" -> S("client1")
      [] field = "system_prompt" -> S("You are an AI assistant helping with a phone call.")
      [] field = "greeting_text" -> S("Hello! This is an automated call.")

\* the payloads start_new_call invocation p has posted to /api/call
Posted(p) == {e.request.json.fields : e \in {x \in Range(log[p]) : IsCallPost(x)}}

\* C5 as stated: a default is used only for an absent field; an empty string
\* supplied for ai_client, system_prompt or greeting_text reaches the payload
\* unchanged.
C5_EmptyStringKept ==
    \A p \in Starts : \A payload \in Posted(p) : \A f \in Defaulted :
        payload[f] = IF input[p][f] = PyNone THEN DefaultOf(f) ELSE input[p][f]

\* C5 amended: the default is used when the field is absent or is the empty
\* string; only a non-empty supplied string reaches the payload unchanged.
C5_EmptyStringDefaulted ==
    \A p \in Starts : \A payload \in Posted(p) : \A f \in Defaulted :
        payload[f] = IF input[p][f] \in {PyNone, EmptyStr} THEN DefaultOf(f) ELSE input[p][f]

C5_Witness ==
    \E p \in Starts : \E payload \in Posted(p) :
        /\ input[p].ai_client = EmptyStr /\ payload["ai_client"] = S("client1")
        /\ input[p].system_prompt = EmptyStr
        /\ input[p].greeting_text = S("g") /\ payload["greeting_text"] = S("g")

(* ------------------------------- C6 ------------------------------------ *)

\* the auto-select lookup of p has answered with a non-empty DID list
GotDidList(p) ==
    /\ log[p] # <<>>
    /\ IsRequest(log[p][1], "POST", "/api/validate-and-fetch-dids")
    /\ ~Failed(log[p][1])
    /\ LET body == log[p][1].response.body IN
       /\ body.t = "dict"
       /\ "dids" \in DOMAIN body.fields
       /\ body.fields["dids"].t = "list"
       /\ body.fields["dids"].items # <<>>

FirstEntry(p) == log[p][1].response.body.fields["dids"].items[1]

\* its DID-number field if the entry is an object, otherwise its string form
DidOfEntry(entry) ==
    IF entry.t = "dict"
    THEN (IF "did_number" \in DOMAIN entry.fields THEN entry.fields["did_number"] ELSE PyNone)
    ELSE (CASE entry.t = "none" -> S("None") [] entry.t = "str" -> entry)

\* the call is on its way with the selected DID, or has been posted with it
CallPlaced(p, did) ==
    LET i == input[p] IN
    \/ /\ pc[p] = "submit" /\ Len(log[p]) = 1
       /\ local[p].destination = SuppliedDestination(i)
       /\ local[p].did_number = did
       /\ ~Supplied(i.ai_client) => local[p].ai_client = S("client1")
    \/ /\ pc[p] = "done" /\ Len(log[p]) = 2 /\ IsCallPost(log[p][2])
       /\ LET payload == log[p][2].request.json.fields IN
          /\ payload["destination"] = SuppliedDestination(i)
          /\ payload["did_number"] = did
          /\ ~Supplied(i.ai_client) => payload["ai_client"] = S("client1")

\* C6 as stated: with a destination, no DID, and a non-empty DID list from the
\* lookup, the call is posted with the first entry's DID.
C6_FirstDidAlwaysUsed ==
    \A p \in Starts :
        (HasDestination(input[p]) /\ ~HasDid(input[p]) /\ GotDidList(p)) =>
            CallPlaced(p, DidOfEntry(FirstEntry(p)))

\* C6 amended: the same, provided the first entry yields a non-empty DID (an
\* object with a non-empty did_number field, or a plain value whose string form
\* is not empty); otherwise no call is posted and the did_number validation
\* string is returned after the one lookup.
C6_FirstDidUsedWhenUsable ==
    \A p \in Starts :
        (HasDestination(input[p]) /\ ~HasDid(input[p]) /\ GotDidList(p)) =>
            LET did == DidOfEntry(FirstEntry(p)) IN
            IF Supplied(did)
            THEN CallPlaced(p, did)
            ELSE /\ pc[p] = "done" /\ Len(log[p]) = 1
                 /\ result[p].value =
                      S("Failed to start call: did_number/from_number is required (no default DID available).")

C6_Witness ==
    \E p \in Starts :
        /\ input[p].to_number = S("08069256212") /\ input[p].destination = PyNone
        /\ ~HasDid(input[p]) /\ input[p].ai_client = PyNone
        /\ input[p].system_prompt = S("p") /\ input[p].greeting_text = S("g")
        /\ GotDidList(p) /\ FirstEntry(p) = DidA
        /\ pc[p] = "done" /\ Len(log[p]) = 2
        /\ log[p][2].request.json.fields["did_number"] = DidA

(* ------------------------------- C7 ------------------------------------ *)

\* C7: with a destination and no DID, a failed auto-select lookup ends the
\* invocation after that one request with the did_number validation string,
\* in which nothing of the lookup's error appears.
C7_LookupFailureSwallowed ==
    \A p \in Starts :
        (HasDestination(input[p]) /\ ~HasDid(input[p]) /\ log[p] # <<>> /\ Failed(log[p][1])) =>
            /\ Len(log[p]) = 1
            /\ IsRequest(log[p][1], "POST", "/api/validate-and-fetch-dids")
            /\ pc[p] = "done"
            /\ result[p].kind = "return"
            /\ result[p].value =
                 S("Failed to start call: did_number/from_number is required (no default DID available).")
            /\ Range(result[p].value.s) \cap Range(MessageOf(log[p][1].response)) = {}

C7_Witness ==
    \E p \in Starts :
        /\ HasDestination(input[p]) /\ ~HasDid(input[p])
        /\ pc[p] = "done" /\ Len(log[p]) = 1
        /\ log[p][1].response = HttpErr(422)
        /\ IsText(result[p].value)

(* ------------------------------- C8 ------------------------------------ *)

Required == {"destination", "did_number", "ai_client", "system_prompt", "greeting_text"}

\* C8: with destination and did_number both supplied, the one request is the
\* POST to /api/call, and its payload has the five required fields, script_id
\* exactly when one was supplied and metadata exactly when one was supplied,
\* each with the supplied value.
C8_PayloadFields ==
    \A p \in Starts :
        (HasDestination(input[p]) /\ HasDid(input[p])) =>
            \A k \in DOMAIN log[p] :
                /\ k = 1 /\ IsCallPost(log[p][k])
                /\ LET payload == log[p][k].request.json.fields
                       i == input[p]
                   IN
                   /\ DOMAIN payload =
                        Required \cup (IF i.script_id # PyNone THEN {"script_id"} ELSE {})
                                 \cup (IF i.metadata # PyNone THEN {"metadata"} ELSE {})
                   /\ payload["destination"] = SuppliedDestination(i)
                   /\ payload["did_number"] = SuppliedDid(i)
                   /\ i.script_id # PyNone => payload["script_id"] = i.script_id
                   /\ i.metadata # PyNone => payload["metadata"] = i.metadata

C8_Witness ==
    \E p \in Starts :
        /\ HasDestination(input[p]) /\ HasDid(input[p])
        /\ input[p].script_id = EmptyStr /\ input[p].metadata = PyNone
        /\ pc[p] = "done" /\ Len(log[p]) = 1 /\ IsCallPost(log[p][1])
        /\ DOMAIN log[p][1].request.json.fields = Required \cup {"script_id"}

(* ------------------------------- C10 ----------------------------------- *)

NonEmpty(v) == v.t # "none" /\ (v.t = "str" => v.s # <<>>)

\* C10: a start_new_call invocation posts to /api/call at most once, as its
\* last request, and only with a non-empty destination and did_number.
C10_CallPostedOnceAndValid ==
    \A p \in Starts :
        \A k \in DOMAIN log[p] :
            IsCallPost(log[p][k]) =>
                /\ k = Len(log[p])
                /\ pc[p] = "done"
                /\ \A j \in DOMAIN log[p] : IsCallPost(log[p][j]) => j = k
                /\ NonEmpty(log[p][k].request.json.fields["destination"])
                /\ NonEmpty(log[p][k].request.json.fields["did_number"])

C10_Witness ==
    \E p \in Starts :
        /\ GotDidList(p) /\ FirstEntry(p) = PyNone
        /\ pc[p] = "done" /\ Len(log[p]) = 2 /\ IsCallPost(log[p][2])
        /\ log[p][2].request.json.fields["did_number"] = S("None")

(* ------------------------------- C9 ------------------------------------ *)

\* the headers a request carries when the credential in the environment is key
FreshHeaders(key) ==
    LET token == IF key = PyNone THEN S("dummy_key_for_tests") ELSE key IN
    ("Content-Type" :> S("application/json"))
      @@ ("Authorization" :> [t |-> "str", s |-> <<"Bearer ">> \o token.s])
      @@ ("X-API-Key" :> token)

Private(p) == <<tool[p], input[p], local[p], caught[p], log[p], result[p]>>

\* a step leaves the base URL and the header template as they were, changes
\* the credential only when the environment replaces it, touches the private
\* state of the stepping invocation only, and sends its request with headers
\* built from the template and the credential of that moment
IsolatedStep ==
    /\ BASE_URL' = BASE_URL
    /\ HEADERS' = HEADERS
    /\ environ' # environ => (pc' = pc /\ log' = log /\ result' = result)
    /\ \A p \in Invocations :
          /\ pc'[p] = pc[p] => Private(p)' = Private(p)
          /\ Len(log'[p]) > Len(log[p]) =>
                /\ Len(log'[p]) = Len(log[p]) + 1
                /\ log'[p][Len(log'[p])].request.headers = FreshHeaders(environ)

Sent(p) == [k \in DOMAIN log[p] |->
               [method |-> log[p][k].request.method, url |-> log[p][k].request.url,
                json |-> log[p][k].request.json]]

Answers(p) == [k \in DOMAIN log[p] |-> log[p][k].response]

\* two finished invocations of the same tool with the same input that got the
\* same answers sent the same requests and returned the same value
SameOutcome ==
    \A p, q \in Invocations :
        (/\ pc[p] = "done" /\ pc[q] = "done"
         /\ tool[p] = tool[q] /\ input[p] = input[q]
         /\ Answers(p) = Answers(q)) =>
            (result[p] = result[q] /\ Sent(p) = Sent(q))

\* C9: under any interleaving of tool invocations and credential changes, no
\* invocation mutates the base URL, the header template or the credential or
\* another invocation's state; each request carries a private copy of the
\* template with the credential read at that moment; what an invocation sends
\* and returns is determined by its input and the answers it got.
C9_NoSharedMutation == [][IsolatedStep]_vars /\ []SameOutcome

C9_Witness ==
    \E p, q \in Invocations :
        /\ p # q
        /\ pc[p] = "fallback1" /\ pc[q] = "submit" /\ Len(log[q]) = 1
        /\ log[p][1].request.headers["X-API-Key"] # log[q][1].request.headers["X-API-Key"]
        /\ HEADERS = ("Content-Type" :> S("application/json"))

====
